---- MODULE Spec2Model ----
(***************************************************************************)
(* Model of src/app.py, the Serverless FinOps dashboard script.            *)
(*                                                                         *)
(* The script runs once from top to bottom for an uploaded file: upload    *)
(* check, CSV load with the single-column repair, numeric coercion, the    *)
(* dataset preview and six views.  Each section of the script is one       *)
(* action; `at` is the section the run has reached.                        *)
(*                                                                         *)
(* Numbers.  pandas holds the numeric columns as IEEE doubles.  The model  *)
(* keeps the special values (NaN, +inf, -inf) with their IEEE rules and    *)
(* represents every finite value exactly, as n/d * 10^e in canonical form  *)
(* (gcd(n,d) = 1, d coprime to 10, n not a multiple of 10).  Rounding of   *)
(* doubles is therefore not modelled.                                      *)
(*                                                                         *)
(* Text.  A CSV line and a cell are sequences of symbols: the digits, "-", *)
(* ".", "," and words (a run of letters kept as one symbol, since parsing  *)
(* only asks whether a symbol is a digit, a sign, a point or a comma).     *)
(***************************************************************************)
EXTENDS Integers, Sequences, FiniteSets, TLC

(***************************************************************************)
(* Exact arithmetic with the IEEE special values                           *)
(***************************************************************************)
\* F applied to the value of v (v is evaluated once).
With(v, F(_)) == CHOOSE y \in {F(x) : x \in {v}} : TRUE

Abs(i) == IF i < 0 THEN -i ELSE i

Min2(a, b) == IF a <= b THEN a ELSE b

RECURSIVE GCD(_, _)
GCD(a, b) == IF b = 0 THEN a ELSE GCD(b, a % b)

RECURSIVE Pow10(_)
Pow10(k) == IF k = 0 THEN 1 ELSE 10 * Pow10(k - 1)

NaN == [k |-> "nan"]

Inf(s) == [k |-> "inf", s |-> s]

\* n/d * 10^e with d > 0, gcd(n,d) = 1 and n /= 0, moved to canonical form.
RECURSIVE Canon(_, _, _)
Canon(n, d, e) ==
    IF n % 10 = 0 THEN Canon(n \div 10, d, e + 1)
    ELSE IF d % 10 = 0 THEN Canon(n, d \div 10, e - 1)
    ELSE IF d % 2 = 0 THEN Canon(n * 5, d \div 2, e - 1)
    ELSE IF d % 5 = 0 THEN Canon(n * 2, d \div 5, e - 1)
    ELSE [k |-> "num", n |-> n, d |-> d, e |-> e]

\* The finite value n/d * 10^e (d /= 0).
Norm(n, d, e) ==
    IF n = 0 THEN [k |-> "num", n |-> 0, d |-> 1, e |-> 0]
    ELSE With(GCD(Abs(n), Abs(d)) * (IF d < 0 THEN -1 ELSE 1),
              LAMBDA g : Canon(n \div g, d \div g, e))

Num(i) == Norm(i, 1, 0)

Dec(m, e) == Norm(m, 1, e)

IsNaN(a) == a.k = "nan"

IsInf(a) == a.k = "inf"

IsNum(a) == a.k = "num"

Sign(a) == IF IsInf(a) THEN a.s
           ELSE IF a.n > 0 THEN 1 ELSE IF a.n < 0 THEN -1 ELSE 0

FNeg(a) == IF IsNaN(a) THEN NaN
           ELSE IF IsInf(a) THEN Inf(-a.s)
           ELSE [a EXCEPT !.n = -a.n]

FAdd(a, b) ==
    IF IsNaN(a) \/ IsNaN(b) THEN NaN
    ELSE IF IsInf(a) /\ IsInf(b) THEN (IF a.s = b.s THEN a ELSE NaN)
    ELSE IF IsInf(a) THEN a
    ELSE IF IsInf(b) THEN b
    ELSE With(Min2(a.e, b.e), LAMBDA e :
              Norm(a.n * Pow10(a.e - e) * b.d + b.n * Pow10(b.e - e) * a.d,
                   a.d * b.d, e))

FSub(a, b) == FAdd(a, FNeg(b))

FMul(a, b) ==
    IF IsNaN(a) \/ IsNaN(b) THEN NaN
    ELSE IF IsInf(a) \/ IsInf(b)
         THEN (IF Sign(a) * Sign(b) = 0 THEN NaN ELSE Inf(Sign(a) * Sign(b)))
    ELSE Norm(a.n * b.n, a.d * b.d, a.e + b.e)

FDiv(a, b) ==
    IF IsNaN(a) \/ IsNaN(b) THEN NaN
    ELSE IF IsInf(a) THEN (IF IsInf(b) THEN NaN
                           ELSE Inf(a.s * (IF Sign(b) < 0 THEN -1 ELSE 1)))
    ELSE IF IsInf(b) THEN Num(0)
    ELSE IF b.n = 0 THEN (IF a.n = 0 THEN NaN ELSE Inf(Sign(a)))
    ELSE Norm(a.n * b.d, a.d * b.n, a.e - b.e)

\* Comparisons: any comparison with NaN is false.
FLt(a, b) == /\ ~IsNaN(a)
             /\ ~IsNaN(b)
             /\ a /= b
             /\ Sign(FSub(a, b)) < 0

FGt(a, b) == FLt(b, a)

FLe(a, b) == /\ ~IsNaN(a)
             /\ ~IsNaN(b)
             /\ (a = b \/ FLt(a, b))

(***************************************************************************)
(* Text: cells and lines of the uploaded file                              *)
(***************************************************************************)
Digits == <<"0", "1", "2", "3", "4", "5", "6", "7", "8", "9">>

IsDigit(c) == \E i \in 1..Len(Digits) : Digits[i] = c

DigitVal(c) == (CHOOSE i \in 1..Len(Digits) : Digits[i] = c) - 1

\* The decimal text of a natural number.
RECURSIVE NatText(_)
NatText(n) == IF n < 10 THEN <<Digits[n + 1]>>
              ELSE Append(NatText(n \div 10), Digits[(n % 10) + 1])

IntText(i) == IF i < 0 THEN <<"-">> \o NatText(-i) ELSE NatText(i)

Str(t) == [k |-> "str", s |-> t]

\* A cell that holds no value (None / NaN in an object column).
None == [k |-> "none"]

\* The k-th smallest element of a set of numbers.
Nth(S, k) == CHOOSE p \in S : Cardinality({q \in S : q < p}) = k - 1

\* The position of the k-th of the separators seps of t; 0 and Len(t) + 1
\* stand for the two ends.
Cut(t, seps, k) == IF k = 0 THEN 0
                   ELSE IF k = Cardinality(seps) + 1 THEN Len(t) + 1
                   ELSE Nth(seps, k)

\* The pieces of t between the positions seps, in order.
Pieces(t, seps) ==
    [k \in 1..(Cardinality(seps) + 1) |->
        SubSeq(t, Cut(t, seps, k - 1) + 1, Cut(t, seps, k) - 1)]

\* str.split(","): the pieces of a text between its commas.
Split(t) == With({i \in 1..Len(t) : t[i] = ","}, LAMBDA commas : Pieces(t, commas))

\* The value of the first n symbols of t, all digits, read as a number.
RECURSIVE DigitsVal(_, _)
DigitsVal(t, n) == IF n = 0 THEN 0
                   ELSE 10 * DigitsVal(t, n - 1) + DigitVal(t[n])

\* t without its "." symbols.
NotPoint(c) == c /= "."

DropPoint(t) == SelectSeq(t, NotPoint)

\* The number of symbols after the first "." of t, 0 if it has none.
Decimals(t) == IF \E i \in 1..Len(t) : t[i] = "."
               THEN Len(t) - Nth({i \in 1..Len(t) : t[i] = "."}, 1)
               ELSE 0

\* An unsigned decimal literal: digits with at most one point, one digit at least.
IsUnsigned(t) == /\ \A i \in 1..Len(t) : IsDigit(t[i]) \/ t[i] = "."
                 /\ Cardinality({i \in 1..Len(t) : t[i] = "."}) <= 1
                 /\ \E i \in 1..Len(t) : IsDigit(t[i])

UnsignedVal(t) ==
    With(DropPoint(t), LAMBDA digits : Dec(DigitsVal(digits, Len(digits)), -Decimals(t)))

\* The number a text parses to, NaN when it is no number.
ParseText(t) ==
    IF t /= <<>> /\ Head(t) = "-"
    THEN With(Tail(t), LAMBDA u : IF IsUnsigned(u) THEN FNeg(UnsignedVal(u)) ELSE NaN)
    ELSE IF IsUnsigned(t) THEN UnsignedVal(t) ELSE NaN

\* pd.to_numeric(errors="coerce") on one cell.
ToNumeric(c) == IF c.k = "str" THEN ParseText(c.s)
                ELSE IF c.k = "none" THEN NaN
                ELSE c

(***************************************************************************)
(* pd.read_csv: the tokenizer and the two ways the script calls it         *)
(***************************************************************************)
Quote == "\""

Newline == "\n"

\* The symbols of lines, each line ended by a newline.
RECURSIVE Flatten(_)
Flatten(lines) == IF lines = <<>> THEN <<>>
                  ELSE Head(lines) \o <<Newline>> \o Flatten(Tail(lines))

\* Whether position i is inside a quoted value: an odd number of the quotes
\* (at positions quotes) comes before it.
InQuotes(quotes, i) == Cardinality({j \in quotes : j < i}) % 2 = 1

QuotesOf(t) == {i \in 1..Len(t) : t[i] = Quote}

NotQuote(c) == c /= Quote

NotBlank(t) == t /= <<>>

\* The fields of one record: it breaks on the commas outside quotes, and the
\* quotes themselves are dropped.
Fields(t) ==
    With(QuotesOf(t), LAMBDA quotes :
    With({i \in 1..Len(t) : t[i] = "," /\ ~InQuotes(quotes, i)}, LAMBDA commas :
    With(Pieces(t, commas), LAMBDA raw :
         [k \in 1..Len(raw) |-> SelectSeq(raw[k], NotQuote)])))

\* The records of a symbol stream: records break on the newlines outside
\* quotes and fields on the commas outside quotes; in a quoted value commas
\* and newlines are data; blank lines are skipped; the end of the stream
\* inside a quoted value is an error ("EOF inside string").  (A quote in the
\* middle of an unquoted field, which the tokenizer takes as data, is not
\* among the inputs.)
Tokenize(s) ==
    With(QuotesOf(s), LAMBDA quotes :
    With({i \in 1..Len(s) : s[i] = Newline /\ ~InQuotes(quotes, i)}, LAMBDA ends :
    With(SelectSeq(Pieces(s, ends), NotBlank), LAMBDA texts :
         [err  |-> InQuotes(quotes, Len(s) + 1),
          recs |-> [k \in 1..Len(texts) |-> Fields(texts[k])]])))

\* A parsed field as a cell: the empty field is a missing value.
Cell(t) == IF t = <<>> THEN None ELSE Str(t)

\* A record as cells, padded with missing values to width w.
Padded(rec, w) == [j \in 1..w |-> IF j <= Len(rec) THEN Cell(rec[j]) ELSE None]

\* The table of the records recs: with a header the first record names the
\* columns; without one the columns are numbered and every record is data.
\* The width is the first record's.
Table(recs, header) ==
    With(Len(Head(recs)), LAMBDA w :
    With(IF header THEN Tail(recs) ELSE recs, LAMBDA data :
         [err  |-> FALSE,
          cols |-> IF header THEN Head(recs) ELSE [j \in 1..w |-> NatText(j - 1)],
          recs |-> [i \in 1..Len(data) |-> Padded(data[i], w)]]))

\* pd.read_csv(uploaded) and pd.read_csv(uploaded, header=None), reading the
\* file from line offset pos.  The result is an error (a tokenizing error, or
\* no line to read: EmptyDataError) or the column names and the records.
ReadCsv(file, pos, header) ==
    With(Tokenize(Flatten(SubSeq(file, pos + 1, Len(file)))), LAMBDA tok :
         IF tok.err THEN [err |-> TRUE, msg |-> "EOF inside string"]
         ELSE IF tok.recs = <<>>
              THEN [err |-> TRUE, msg |-> "No columns to parse from file"]
         ELSE Table(tok.recs, header))

(***************************************************************************)
(* Data frames                                                             *)
(***************************************************************************)
FunctionName == <<"FunctionName">>

Environment == <<"Environment">>

InvocationsPerMonth == <<"InvocationsPerMonth">>

AvgDurationMs == <<"AvgDurationMs">>

MemoryMB == <<"MemoryMB">>

ColdStartRate == <<"ColdStartRate">>

ProvisionedConcurrency == <<"ProvisionedConcurrency">>

GBSeconds == <<"GBSeconds">>

DataTransferGB == <<"DataTransferGB">>

CostUSD == <<"CostUSD">>

CostPercent == <<"CostPercent">>

CumulativeCost == <<"CumulativeCost">>

EstimatedSavings == <<"EstimatedSavings">>

Recommendation == <<"Recommendation">>

ForecastedCost == <<"ForecastedCost">>

\* The names the repair assigns (lines 34-45).
ColumnNames == <<FunctionName, Environment, InvocationsPerMonth, AvgDurationMs,
                 MemoryMB, ColdStartRate, ProvisionedConcurrency, GBSeconds,
                 DataTransferGB, CostUSD>>

\* The columns the script converts (lines 51-52).
NumericColumns == <<InvocationsPerMonth, AvgDurationMs, MemoryMB, ColdStartRate,
                    ProvisionedConcurrency, GBSeconds, DataTransferGB, CostUSD>>

Range(f) == {f[i] : i \in DOMAIN f}

\* Position of the first column called name.
ColumnAt(cols, name) == CHOOSE j \in 1..Len(cols) :
                            cols[j] = name /\ \A h \in 1..(j - 1) : cols[h] /= name

\* A frame: the column names in order and the rows, each with its index
\* label idx and its cells c by column name.
DataFrame(cols, recs) ==
    [cols |-> cols,
     rows |-> [i \in 1..Len(recs) |->
                 [idx |-> i - 1,
                  c   |-> [n \in Range(cols) |-> recs[i][ColumnAt(cols, n)]]]]]

EmptyFrame == [cols |-> <<>>, rows |-> <<>>]

HasColumn(f, name) == name \in Range(f.cols)

\* The rows whose index label is in keep, in order.
Kept(r, keep) == r.idx \in keep

SelectRows(rows, keep) == SelectSeq(rows, LAMBDA r : Kept(r, keep))

\* f[name] = values: values[i] goes to row i; a new name is appended to the
\* columns, an existing one keeps its place.
SetColumn(f, name, values) ==
    [cols |-> IF HasColumn(f, name) THEN f.cols ELSE Append(f.cols, name),
     rows |-> [i \in 1..Len(f.rows) |->
                 [f.rows[i] EXCEPT !.c =
                     [n \in (DOMAIN f.rows[i].c) \cup {name} |->
                         IF n = name THEN values[i] ELSE f.rows[i].c[n]]]]]

Column(f, name) == [i \in 1..Len(f.rows) |-> f.rows[i].c[name]]

\* f[[names]]: the named columns only.
Project(f, names) ==
    [cols |-> names,
     rows |-> [i \in 1..Len(f.rows) |->
                 [f.rows[i] EXCEPT !.c = [n \in Range(names) |-> f.rows[i].c[n]]]]]

\* The sum of the first n values of v, missing values skipped.
RECURSIVE SumTo(_, _)
SumTo(v, n) == IF n = 0 THEN Num(0)
               ELSE IF IsNaN(v[n]) THEN SumTo(v, n - 1)
               ELSE With(SumTo(v, n - 1), LAMBDA acc : FAdd(acc, v[n]))

\* Series.sum(): missing values are skipped; the sum of none is 0.
SeriesSum(v) == SumTo(v, Len(v))

Count(v) == Cardinality({i \in DOMAIN v : ~IsNaN(v[i])})

\* Series.mean(): over the values present; NaN when there is none.
SeriesMean(v) == With(SeriesSum(v), LAMBDA total : FDiv(total, Num(Count(v))))

\* Series.cumsum(): missing values count as 0 in the running sum and stay
\* missing in the result.
CumSum(v) == [i \in 1..Len(v) |-> IF IsNaN(v[i]) THEN NaN ELSE SumTo(v, i)]

\* Whether row a goes before row b when sorting by name, descending: missing
\* values last.
Before(a, b, name) ==
    IF IsNaN(a.c[name]) THEN FALSE
    ELSE IF IsNaN(b.c[name]) THEN TRUE
    ELSE FGt(a.c[name], b.c[name])

\* The place of row i after the sort: behind the rows that go before it and
\* behind the rows of equal rank that come earlier in the frame.
Place(rows, i, name) ==
    1 + Cardinality({j \in 1..Len(rows) :
                        \/ Before(rows[j], rows[i], name)
                        \/ (~Before(rows[i], rows[j], name) /\ j < i)})

\* f.sort_values(name, ascending=False)
SortValuesDesc(f, name) ==
    With([i \in 1..Len(f.rows) |-> Place(f.rows, i, name)], LAMBDA place :
         [f EXCEPT !.rows = [p \in 1..Len(f.rows) |->
                               f.rows[CHOOSE i \in 1..Len(f.rows) : place[i] = p]]])

\* Seek with the call of line 27 left out: the next read starts where the
\* first one ended.
SeekForgotten(pos, offset) == pos

(***************************************************************************)
(* The loader and its repair (lines 19-48)                                 *)
(***************************************************************************)
\* uploaded.seek(offset) (line 27): the position the next read starts at,
\* whatever the position pos the first read left the file at.
Seek(pos, offset) == offset

\* Whether a column read from the file is held as text: some value of it is
\* text that is no number.  (Otherwise read_csv gives it a numeric dtype.)
IsObject(v) == \E i \in DOMAIN v : v[i].k = "str" /\ IsNaN(ParseText(v[i].s))

Max(S) == CHOOSE x \in S : \A y \in S : y <= x

\* A row of pieces as cells, padded with missing values to width w.
Expanded(pieces, w) == [j \in 1..w |-> IF j <= Len(pieces) THEN Str(pieces[j]) ELSE None]

\* temp[0].str.split(",", expand=True): one column per piece, as many columns
\* as the longest row has pieces, shorter rows padded with missing values.
StrSplitExpand(v) ==
    With([i \in DOMAIN v |-> IF v[i].k = "str" THEN Split(v[i].s) ELSE <<>>],
         LAMBDA pieces :
    With(Max({Len(pieces[i]) : i \in DOMAIN v}), LAMBDA w :
         [width |-> w,
          recs  |-> [i \in DOMAIN v |-> Expanded(pieces[i], w)]]))

\* Lines 31-45 on the first column of temp: split it, assign the ten names.
SplitAndName(temp0) ==
    IF ~IsObject(temp0)
    THEN [err |-> TRUE, msg |-> "Can only use .str accessor with string values!"]
    ELSE With(StrSplitExpand(temp0), LAMBDA split :
              IF split.width /= Len(ColumnNames)
              THEN [err |-> TRUE, msg |-> "Length mismatch"]
              ELSE [err |-> FALSE, df |-> DataFrame(ColumnNames, split.recs)])

\* Repair with header=None left out of the second read.
RepairWithHeader(file) ==
    With(ReadCsv(file, 0, TRUE), LAMBDA temp :
         IF temp.err THEN temp
         ELSE IF temp.recs = <<>> THEN [err |-> TRUE, msg |-> "Length mismatch"]
         ELSE SplitAndName([i \in 1..Len(temp.recs) |-> temp.recs[i][1]]))

\* The repair branch (lines 24-45): re-read without a header from the start
\* of the file, split the one column on the comma, assign the ten names.
Repair(file) ==
    With(ReadCsv(file, Seek(Len(file), 0), FALSE), LAMBDA temp :
         IF temp.err THEN temp
         ELSE SplitAndName([i \in 1..Len(temp.recs) |-> temp.recs[i][1]]))

\* The try block (lines 19-45): the frame loaded, or the exception raised;
\* `repaired` tells whether the single-column branch was taken (the warning
\* of line 24 is shown before anything in the branch can fail).
LoadCsv(file) ==
    With(ReadCsv(file, 0, TRUE), LAMBDA first :
         IF first.err THEN [err |-> TRUE, msg |-> first.msg, repaired |-> FALSE]
         ELSE IF Len(first.cols) = 1
              THEN With(Repair(file), LAMBDA r :
                        IF r.err THEN [err |-> TRUE, msg |-> r.msg, repaired |-> TRUE]
                        ELSE [err |-> FALSE, repaired |-> TRUE, df |-> r.df])
         ELSE [err |-> FALSE, repaired |-> FALSE,
               df |-> DataFrame(first.cols, first.recs)])

(***************************************************************************)
(* Coercion (lines 51-53)                                                  *)
(***************************************************************************)
\* df[col] = pd.to_numeric(df[col], errors="coerce")
CoerceColumn(f, col) ==
    SetColumn(f, col, [i \in 1..Len(f.rows) |-> ToNumeric(f.rows[i].c[col])])

\* The loop over the first n numeric columns: each is replaced by its numeric
\* values; a column the frame does not have raises KeyError, with the columns
\* before it already converted.
RECURSIVE CoerceColumns(_, _)
CoerceColumns(f, n) ==
    IF n = 0 THEN [ok |-> TRUE, df |-> f]
    ELSE With(CoerceColumns(f, n - 1), LAMBDA done :
              IF ~done.ok \/ ~HasColumn(done.df, NumericColumns[n])
              THEN [ok |-> FALSE, df |-> done.df]
              ELSE [ok |-> TRUE, df |-> CoerceColumn(done.df, NumericColumns[n])])

Coerced(f) == CoerceColumns(f, Len(NumericColumns))

(***************************************************************************)
(* The six views                                                           *)
(***************************************************************************)
ShareLimit == 80

RightSizeDurationMs == 600

RightSizeMemoryMB == 1024

ColdStartLimit == 10

ContainerDurationMs == 3000

ContainerMemoryMB == 2048

Percent == 100

SavingsRate == Dec(3, -1)

InvocationShare == Dec(1, -2)

ComputeRate == Dec(12, -11)

TransferRate == Dec(9, -2)

ReducePC == Str(<<"Reduce / Remove PC">>)

KeepPC == Str(<<"Keep PC">>)

\* f[mask]: the rows of f that satisfy P, in order, with the same columns.
Filter(f, P(_)) == [f EXCEPT !.rows = SelectSeq(f.rows, P)]

\* Line 63
TotalCost(f) == SeriesSum(Column(f, CostUSD))

\* CostShare with the division guarded by a zero result.
CostShareZeroGuard(cost, total) ==
    IF total = Num(0) THEN Num(0)
    ELSE With(FDiv(cost, total), LAMBDA q : FMul(q, Num(Percent)))

\* Line 65
CostShare(cost, total) == With(FDiv(cost, total), LAMBDA q : FMul(q, Num(Percent)))

\* Lines 64-66: the frame sorted by cost with CostPercent and CumulativeCost.
SortedByCost(f) ==
    With(TotalCost(f), LAMBDA total :
    With(SortValuesDesc(f, CostUSD), LAMBDA sorted :
    With([i \in 1..Len(sorted.rows) |-> CostShare(sorted.rows[i].c[CostUSD], total)],
         LAMBDA percent :
    With(SetColumn(sorted, CostPercent, percent), LAMBDA withPercent :
         SetColumn(withPercent, CumulativeCost, CumSum(percent))))))

\* InTop80 with a strict comparison.
InTop80Strict(r) == FLt(r.c[CumulativeCost], Num(ShareLimit))

\* Line 68
InTop80(r) == FLe(r.c[CumulativeCost], Num(ShareLimit))

Top80(sorted) == Filter(sorted, InTop80)

\* IsOversized with the duration limit included.
IsOversizedInclusive(r) == /\ FLe(r.c[AvgDurationMs], Num(RightSizeDurationMs))
                           /\ FGt(r.c[MemoryMB], Num(RightSizeMemoryMB))

\* Line 85
IsOversized(r) == /\ FLt(r.c[AvgDurationMs], Num(RightSizeDurationMs))
                  /\ FGt(r.c[MemoryMB], Num(RightSizeMemoryMB))

\* Line 88
Savings(cost) == FMul(cost, SavingsRate)

\* Lines 85-88
RightSizing(f) ==
    With(Filter(f, IsOversized), LAMBDA sel :
         SetColumn(sel, EstimatedSavings,
                   [i \in 1..Len(sel.rows) |-> Savings(sel.rows[i].c[CostUSD])]))

\* Line 97
UsesPC(r) == FGt(r.c[ProvisionedConcurrency], Num(0))

\* Recommend with the cold start limit included.
RecommendInclusive(r) ==
    IF FLe(r.c[ColdStartRate], Num(ColdStartLimit)) THEN ReducePC ELSE KeepPC

\* Line 102
Recommend(r) == IF FLt(r.c[ColdStartRate], Num(ColdStartLimit)) THEN ReducePC
                ELSE KeepPC

\* Lines 101-104, DataFrame.apply(f, axis=1): one value per row as a series;
\* on a frame without rows pandas has no row to call f on (its trial call on
\* an empty row raises KeyError inside apply) and returns a copy of the
\* frame instead of a series.
Apply(f, F(_)) ==
    IF f.rows = <<>> THEN [kind |-> "frame", frame |-> f]
    ELSE [kind |-> "series", values |-> [i \in 1..Len(f.rows) |-> F(f.rows[i])]]

\* pc["Recommendation"] = value: a series sets the column; a frame of several
\* columns cannot be set to one column (ValueError).
SetItem(f, name, value) ==
    IF value.kind = "series"
    THEN [ok |-> TRUE, df |-> SetColumn(f, name, value.values)]
    ELSE [ok |-> Len(value.frame.cols) = 1, df |-> f]

\* Lines 97-104
ProvisionedAdvice(f) ==
    With(Filter(f, UsesPC), LAMBDA sel :
    With(Apply(sel, Recommend), LAMBDA labels : SetItem(sel, Recommendation, labels)))

\* Line 114
InvThreshold(f) ==
    With(SeriesSum(Column(f, InvocationsPerMonth)), LAMBDA total :
         FMul(total, InvocationShare))

IsLowValue(r, threshold, mean) == /\ FLt(r.c[InvocationsPerMonth], threshold)
                                  /\ FGt(r.c[CostUSD], mean)

\* Lines 115-118
LowValue(f) ==
    With(InvThreshold(f), LAMBDA threshold :
    With(SeriesMean(Column(f, CostUSD)), LAMBDA mean :
         Filter(f, LAMBDA r : IsLowValue(r, threshold, mean))))

\* Forecast with the data-transfer term left out.
ForecastComputeOnly(r) ==
    With(FMul(r.c[InvocationsPerMonth], r.c[AvgDurationMs]), LAMBDA p1 :
    With(FMul(p1, r.c[MemoryMB]), LAMBDA p2 :
         FMul(p2, ComputeRate)))

\* Lines 128-134
Forecast(r) ==
    With(FMul(r.c[InvocationsPerMonth], r.c[AvgDurationMs]), LAMBDA p1 :
    With(FMul(p1, r.c[MemoryMB]), LAMBDA p2 :
    With(FMul(p2, ComputeRate), LAMBDA compute :
    With(FMul(r.c[DataTransferGB], TransferRate), LAMBDA transfer :
         FAdd(compute, transfer)))))

WithForecast(f) ==
    SetColumn(f, ForecastedCost, [i \in 1..Len(f.rows) |-> Forecast(f.rows[i])])

\* Line 151
IsContainerCandidate(r) == /\ FGt(r.c[AvgDurationMs], Num(ContainerDurationMs))
                           /\ FGt(r.c[MemoryMB], Num(ContainerMemoryMB))

Containers(f) == Filter(f, IsContainerCandidate)

(***************************************************************************)
(* The inputs: the files a run may be given                                *)
(***************************************************************************)
MaxRows == 3

RECURSIVE JoinFields(_)
JoinFields(fields) == IF Len(fields) = 1 THEN Head(fields)
                      ELSE Head(fields) \o <<",">> \o JoinFields(Tail(fields))

Blank == <<>>

Junk == <<"n/a">>

HeaderLine == JoinFields(ColumnNames)

\* Data lines: FunctionName, Environment, InvocationsPerMonth, AvgDurationMs,
\* MemoryMB, ColdStartRate, ProvisionedConcurrency, GBSeconds, DataTransferGB,
\* CostUSD.  The values sit on both sides of, and on, every threshold of the
\* views; some are blank, some are no numbers, one cost is negative, and the
\* last line has nine fields only.
DataLines ==
    { JoinFields(<<<<"api">>, <<"prod">>, IntText(1000000), IntText(100), IntText(128),
                   IntText(5), IntText(5), IntText(12800), IntText(0), IntText(50)>>),
      JoinFields(<<<<"etl">>, <<"prod">>, IntText(1000), IntText(500), IntText(2048),
                   IntText(15), IntText(5), IntText(1000), IntText(10), IntText(100)>>),
      JoinFields(<<<<"img">>, <<"dev">>, IntText(1), IntText(700), IntText(2048),
                   IntText(10), IntText(0), IntText(1), IntText(0), IntText(30)>>),
      JoinFields(<<<<"ml">>, <<"prod">>, IntText(0), IntText(3500), IntText(4096),
                   Blank, IntText(2), IntText(0), IntText(1), IntText(20)>>),
      JoinFields(<<<<"job">>, <<"dev">>, Junk, IntText(600), IntText(2048),
                   IntText(10), IntText(1), Blank, Blank, IntText(0)>>),
      JoinFields(<<<<"old">>, <<"dev">>, IntText(0), Blank, IntText(2048),
                   <<"9", ".", "5">>, Blank, IntText(0), IntText(0), Junk>>),
      JoinFields(<<<<"ref">>, <<"prod">>, IntText(0), IntText(3000), IntText(4096),
                   IntText(5), IntText(0), IntText(0), IntText(0), IntText(-20)>>),
      JoinFields(<<<<"cut">>, <<"dev">>, IntText(5), IntText(500), IntText(2048),
                   IntText(5), IntText(1), IntText(0), IntText(0)>>) }

Quoted(line) == <<Quote>> \o line \o <<Quote>>

RECURSIVE SeqsUpTo(_, _)
SeqsUpTo(S, n) ==
    IF n = 0 THEN {<<>>}
    ELSE With(SeqsUpTo(S, n - 1), LAMBDA shorter :
              shorter \cup {Append(q, x) : q \in {t \in shorter : Len(t) = n - 1},
                                           x \in S})

NumFields(line) == Len(Split(line))

\* In an unquoted file no line has more fields than the first: pandas would
\* take the extra leading fields as the index.
FirstIsWidest(lines) == \A i \in 1..Len(lines) : NumFields(lines[i]) <= NumFields(lines[1])

\* Files of one line per function, with or without the header line.
PlainFiles ==
    {l \in {(IF header THEN <<HeaderLine>> ELSE <<>>) \o body :
               header \in BOOLEAN, body \in SeqsUpTo(DataLines, MaxRows)} :
        FirstIsWidest(l)}

\* The same files with every line quoted as a whole: the degenerate form the
\* repair is for.
QuotedFiles ==
    {[i \in 1..Len(lines) |-> Quoted(lines[i])] :
        lines \in {(IF header THEN <<HeaderLine>> ELSE <<>>) \o body :
                      header \in BOOLEAN, body \in SeqsUpTo(DataLines, MaxRows)}}

\* A file cut off inside a quoted value, and files of one column of numbers.
OddFiles ==
    { <<HeaderLine, <<Quote>> \o JoinFields(<<<<"api">>, <<"prod">>>>)>>,
      <<IntText(42)>>,
      <<IntText(42), IntText(7)>> }

NoFile == [present |-> FALSE, lines |-> <<>>]

File(lines) == [present |-> TRUE, lines |-> lines]

Uploads == {NoFile} \cup {File(l) : l \in PlainFiles \cup QuotedFiles \cup OddFiles}

(***************************************************************************)
(* The run of the script                                                   *)
(***************************************************************************)
VARIABLES
    uploaded,       \* st.file_uploader's result
    at,             \* the section of the script the run is at
    shown,          \* what has been rendered so far, in order
    error,          \* the exception message shown by st.error, "" if none
    df,             \* the table
    preview,        \* the table as shown by the dataset preview
    total_cost,     \* line 63
    df_sorted,      \* lines 64-66
    top_80,         \* line 68
    right_sizing,   \* lines 85-88
    pc,             \* lines 97-104
    inv_threshold,  \* line 114
    low_value,      \* lines 115-118
    forecast,       \* the frame shown at line 137
    containers      \* line 151

vars == <<uploaded, at, shown, error, df, preview, total_cost, df_sorted, top_80,
          right_sizing, pc, inv_threshold, low_value, forecast, containers>>

views == <<total_cost, df_sorted, top_80, right_sizing, pc, inv_threshold, low_value,
           forecast, containers>>

Unset == [k |-> "unset"]

Init ==
    /\ uploaded \in Uploads
    /\ at = "upload"
    /\ shown = <<>>
    /\ error = ""
    /\ df = EmptyFrame
    /\ preview = EmptyFrame
    /\ total_cost = Unset
    /\ df_sorted = EmptyFrame
    /\ top_80 = EmptyFrame
    /\ right_sizing = EmptyFrame
    /\ pc = EmptyFrame
    /\ inv_threshold = Unset
    /\ low_value = EmptyFrame
    /\ forecast = EmptyFrame
    /\ containers = EmptyFrame

\* Lines 12-14: no file yet: the info message, and st.stop().
Waiting ==
    /\ at = "upload"
    /\ ~uploaded.present
    /\ shown' = Append(shown, "info")
    /\ at' = "stopped"
    /\ UNCHANGED <<uploaded, error, df, preview, views>>

\* Line 12, a file is there: the script goes on to the try block.
Uploaded ==
    /\ at = "upload"
    /\ uploaded.present
    /\ at' = "load"
    /\ UNCHANGED <<uploaded, shown, error, df, preview, views>>

\* Line 24
Warning(r) == IF r.repaired THEN <<"warning">> ELSE <<>>

\* Lines 19-45 without an exception and without the repair.
LoadStandard ==
    /\ at = "load"
    /\ \E r \in {LoadCsv(uploaded.lines)} :
         /\ ~r.err
         /\ ~r.repaired
         /\ df' = r.df
    /\ at' = "coerce"
    /\ UNCHANGED <<uploaded, shown, error, preview, views>>

\* Lines 19-45 through the repair branch, without an exception.
LoadRepaired ==
    /\ at = "load"
    /\ \E r \in {LoadCsv(uploaded.lines)} :
         /\ ~r.err
         /\ r.repaired
         /\ df' = r.df
         /\ shown' = shown \o Warning(r)
    /\ at' = "coerce"
    /\ UNCHANGED <<uploaded, error, preview, views>>

\* LoadFailed with the st.stop() of line 48 left out: the script goes on.
LoadFailedNoStop ==
    /\ at = "load"
    /\ \E r \in {LoadCsv(uploaded.lines)} :
         /\ r.err
         /\ error' = r.msg
         /\ shown' = shown \o Warning(r) \o <<"error">>
    /\ at' = "coerce"
    /\ UNCHANGED <<uploaded, df, preview, views>>

\* Lines 46-48: an exception of the try block: st.error and st.stop().
LoadFailed ==
    /\ at = "load"
    /\ \E r \in {LoadCsv(uploaded.lines)} :
         /\ r.err
         /\ error' = r.msg
         /\ shown' = shown \o Warning(r) \o <<"error">>
    /\ at' = "stopped"
    /\ UNCHANGED <<uploaded, df, preview, views>>

\* Lines 51-53, every numeric column present.
Coerce ==
    /\ at = "coerce"
    /\ \E r \in {Coerced(df)} :
         /\ r.ok
         /\ df' = r.df
    /\ at' = "preview"
    /\ UNCHANGED <<uploaded, shown, error, preview, views>>

\* Lines 51-53, a numeric column missing: KeyError, which nothing catches.
CoerceKeyError ==
    /\ at = "coerce"
    /\ \E r \in {Coerced(df)} :
         /\ ~r.ok
         /\ df' = r.df
    /\ at' = "crashed"
    /\ UNCHANGED <<uploaded, shown, error, preview, views>>

\* Lines 55-56
Preview ==
    /\ at = "preview"
    /\ preview' = df
    /\ shown' = Append(shown, "preview")
    /\ at' = "top_cost"
    /\ UNCHANGED <<uploaded, error, df, views>>

\* Lines 61-78
TopCost ==
    /\ at = "top_cost"
    /\ total_cost' = TotalCost(df)
    /\ \E sorted \in {SortedByCost(df)} :
         /\ df_sorted' = sorted
         /\ top_80' = Top80(sorted)
    /\ shown' = shown \o <<"top_80", "fig1">>
    /\ at' = "right_sizing"
    /\ UNCHANGED <<uploaded, error, df, preview, right_sizing, pc, inv_threshold,
                   low_value, forecast, containers>>

\* Lines 83-90
RightSize ==
    /\ at = "right_sizing"
    /\ right_sizing' = RightSizing(df)
    /\ shown' = shown \o <<"right_sizing", "savings">>
    /\ at' = "provisioned"
    /\ UNCHANGED <<uploaded, error, df, preview, total_cost, df_sorted, top_80, pc,
                   inv_threshold, low_value, forecast, containers>>

\* Lines 95-107, the Recommendation column set.
Provisioned ==
    /\ at = "provisioned"
    /\ \E r \in {ProvisionedAdvice(df)} :
         /\ r.ok
         /\ pc' = r.df
    /\ shown' = shown \o <<"pc", "recommendations">>
    /\ at' = "low_value"
    /\ UNCHANGED <<uploaded, error, df, preview, total_cost, df_sorted, top_80,
                   right_sizing, inv_threshold, low_value, forecast, containers>>

\* Lines 95-104, the assignment of line 101 raising ValueError, which nothing
\* catches: the filtered frame was shown (line 99), the recommendations not.
ProvisionedValueError ==
    /\ at = "provisioned"
    /\ \E r \in {ProvisionedAdvice(df)} :
         /\ ~r.ok
         /\ pc' = r.df
    /\ shown' = shown \o <<"pc">>
    /\ at' = "crashed"
    /\ UNCHANGED <<uploaded, error, df, preview, total_cost, df_sorted, top_80,
                   right_sizing, inv_threshold, low_value, forecast, containers>>

\* Lines 112-121
LowValueWorkloads ==
    /\ at = "low_value"
    /\ inv_threshold' = InvThreshold(df)
    /\ low_value' = LowValue(df)
    /\ shown' = Append(shown, "low_value")
    /\ at' = "forecast"
    /\ UNCHANGED <<uploaded, error, df, preview, total_cost, df_sorted, top_80,
                   right_sizing, pc, forecast, containers>>

\* Lines 126-144: the column is added to df itself.
Forecasting ==
    /\ at = "forecast"
    /\ \E f \in {WithForecast(df)} :
         /\ df' = f
         /\ forecast' = Project(f, <<FunctionName, CostUSD, ForecastedCost>>)
    /\ shown' = shown \o <<"forecast", "fig2">>
    /\ at' = "containers"
    /\ UNCHANGED <<uploaded, error, preview, total_cost, df_sorted, top_80,
                   right_sizing, pc, inv_threshold, low_value, containers>>

\* Lines 149-153
Containerization ==
    /\ at = "containers"
    /\ containers' = Containers(df)
    /\ shown' = Append(shown, "containers")
    /\ at' = "success"
    /\ UNCHANGED <<uploaded, error, df, preview, total_cost, df_sorted, top_80,
                   right_sizing, pc, inv_threshold, low_value, forecast>>

\* Line 155
Success ==
    /\ at = "success"
    /\ shown' = Append(shown, "success")
    /\ at' = "done"
    /\ UNCHANGED <<uploaded, error, df, preview, views>>

Next ==
    \/ Waiting
    \/ Uploaded
    \/ LoadStandard
    \/ LoadRepaired
    \/ LoadFailed
    \/ Coerce
    \/ CoerceKeyError
    \/ Preview
    \/ TopCost
    \/ RightSize
    \/ Provisioned
    \/ ProvisionedValueError
    \/ LowValueWorkloads
    \/ Forecasting
    \/ Containerization
    \/ Success

Spec == Init /\ [][Next]_vars

(***************************************************************************)
(* Properties                                                              *)
(***************************************************************************)
Has(label) == \E i \in 1..Len(shown) : shown[i] = label

Cost(r) == r.c[CostUSD]

Cum(r) == r.c[CumulativeCost]

Idx(f) == [i \in 1..Len(f.rows) |-> f.rows[i].idx]

\* The cells of row r in the ten columns of the table.
TenCells(r) == [n \in Range(ColumnNames) |-> r.c[n]]

\* The row of the previewed table with index label idx.
TableRow(idx) == preview.rows[CHOOSE i \in 1..Len(preview.rows) : preview.rows[i].idx = idx]

\* A number that is present and greater than the integer k (less than, resp.).
Above(x, k) == IsNum(x) /\ Sign(FSub(x, Num(k))) > 0

Below(x, k) == IsNum(x) /\ Sign(FSub(x, Num(k))) < 0

\* The index labels, in table order, of the rows of the table that satisfy P.
Matching(P(_)) == Idx([rows |-> SelectSeq(preview.rows, P)])

\* The rows of view f are rows of the table, unchanged in the ten columns.
RowsOfTable(f) == \A i \in 1..Len(f.rows) : TenCells(f.rows[i]) = TableRow(f.rows[i].idx).c

Ranked == Has("top_80")

\* df_sorted holds the rows of the table by CostUSD descending, missing last.
SortedDescending ==
    /\ Len(df_sorted.rows) = Len(preview.rows)
    /\ {df_sorted.rows[i].idx : i \in 1..Len(df_sorted.rows)}
         = {preview.rows[i].idx : i \in 1..Len(preview.rows)}
    /\ RowsOfTable(df_sorted)
    /\ \A i, j \in 1..Len(df_sorted.rows) :
         i < j => /\ ~FLt(Cost(df_sorted.rows[i]), Cost(df_sorted.rows[j]))
                  /\ IsNaN(Cost(df_sorted.rows[i])) => IsNaN(Cost(df_sorted.rows[j]))

\* CumulativeCost never decreases along df_sorted, over the rows that have one.
CumulativeNonDecreasing ==
    \A i, j \in 1..Len(df_sorted.rows) :
        (i < j /\ ~IsNaN(Cum(df_sorted.rows[i])) /\ ~IsNaN(Cum(df_sorted.rows[j])))
            => FLe(Cum(df_sorted.rows[i]), Cum(df_sorted.rows[j]))

\* CumulativeCost is the running sum of the shares of the total: for a row
\* with a share, CumulativeCost * total = 100 * (sum of the costs so far).
RunningShare ==
    \A i \in 1..Len(df_sorted.rows) :
        IsNum(Cum(df_sorted.rows[i])) =>
            FMul(Cum(df_sorted.rows[i]), total_cost)
              = FMul(Num(100), SumTo(Column(df_sorted, CostUSD), i))

\* top_80 is a prefix of df_sorted that ends where CumulativeCost passes 80.
SelectedPrefix ==
    \E k \in 0..Len(df_sorted.rows) :
        /\ top_80.rows = SubSeq(df_sorted.rows, 1, k)
        /\ k > 0 => FLe(Cum(df_sorted.rows[k]), Num(80))
        /\ k < Len(df_sorted.rows) => FGt(Cum(df_sorted.rows[k + 1]), Num(80))

CostConcentration ==
    /\ SortedDescending
    /\ CumulativeNonDecreasing
    /\ RunningShare
    /\ SelectedPrefix

NoNegativeCost == \A i \in 1..Len(preview.rows) :
                      IsNaN(Cost(preview.rows[i])) \/ Sign(Cost(preview.rows[i])) >= 0

\* C1 as stated: for every coerced table the cost-concentration view is
\* sorted by CostUSD descending, CumulativeCost is a non-decreasing running
\* share, and the selection is the prefix whose last row is at most 80 and
\* whose first excluded row is above 80.
C1_EveryTable == Ranked => CostConcentration

\* C1, amended: the same, for every coerced table without a negative CostUSD
\* and with a positive total CostUSD.
C1_TopCostPrefix ==
    (Ranked /\ NoNegativeCost /\ Sign(total_cost) > 0) => CostConcentration

\* Costs 50, 30, 20: the first two rows are selected.
C1_Witness ==
    /\ Ranked
    /\ [i \in 1..Len(df_sorted.rows) |-> Cost(df_sorted.rows[i])]
         = <<Num(50), Num(30), Num(20)>>
    /\ [i \in 1..Len(top_80.rows) |-> Cum(top_80.rows[i])] = <<Num(50), Num(80)>>

\* The text of a line without the quotes around it.
Unquoted(line) == SelectSeq(line, NotQuote)

\* The file parses to a single column whose rows are comma-joined values of
\* at most ten fields each.
SingleColumnInput ==
    /\ uploaded.present
    /\ ~ReadCsv(uploaded.lines, 0, TRUE).err
    /\ Len(ReadCsv(uploaded.lines, 0, TRUE).cols) = 1
    /\ \A i \in 1..Len(uploaded.lines) :
         /\ NumFields(Unquoted(uploaded.lines[i])) > 1
         /\ NumFields(Unquoted(uploaded.lines[i])) <= Len(ColumnNames)

LongestRow == Max({NumFields(Unquoted(uploaded.lines[i])) : i \in 1..Len(uploaded.lines)})

\* The try block has just ended: with the frame loaded, or stopped.
JustLoaded == uploaded.present /\ at \in {"coerce", "stopped"}

DegenerateLoaded == JustLoaded /\ SingleColumnInput

TenColumnTable ==
    /\ df.cols = ColumnNames
    /\ \A i \in 1..Len(df.rows) : DOMAIN df.rows[i].c = Range(ColumnNames)

\* C2 as stated: every single-column input of comma-joined rows of at most
\* ten fields is repaired to a table with exactly the ten named columns.
C2_EveryDegenerateInput ==
    DegenerateLoaded => (at = "coerce" /\ TenColumnTable)

\* C2, amended: such an input whose longest row has exactly ten fields is
\* repaired to a table with exactly the ten named columns in order (one record
\* per line); when no row has ten fields the load stops with an error.
C2_RepairTenColumns ==
    DegenerateLoaded =>
        IF LongestRow = Len(ColumnNames)
        THEN /\ at = "coerce"
             /\ error = ""
             /\ shown = <<"warning">>
             /\ TenColumnTable
             /\ Len(df.rows) = Len(uploaded.lines)
        ELSE /\ at = "stopped"
             /\ error = "Length mismatch"
             /\ shown = <<"warning", "error">>

\* A repaired table of three records, one of them padded from nine fields.
C2_Witness ==
    /\ at = "coerce"
    /\ SingleColumnInput
    /\ TenColumnTable
    /\ Len(df.rows) = 3
    /\ \E i \in 1..Len(df.rows) : df.rows[i].c[CostUSD] = None

DerivedColumns == {CostPercent, CumulativeCost, EstimatedSavings, Recommendation,
                   ForecastedCost}

\* C4: no view changes the table or another view's input: the table never
\* gets a derived column, it stays as previewed, and a view's result has only
\* its own derived columns.
C4_ViewsLeaveTableAlone ==
    /\ Range(df.cols) \cap DerivedColumns = {}
    /\ Has("preview") => df = preview
    /\ Range(top_80.cols) \cap DerivedColumns \subseteq {CostPercent, CumulativeCost}
    /\ Range(right_sizing.cols) \cap DerivedColumns \subseteq {EstimatedSavings}
    /\ Range(pc.cols) \cap DerivedColumns \subseteq {Recommendation}
    /\ Range(low_value.cols) \cap DerivedColumns = {}
    /\ Range(containers.cols) \cap DerivedColumns = {}
    /\ Has("containers") => containers = Containers(preview)

NothingComputed ==
    /\ df = EmptyFrame
    /\ preview = EmptyFrame
    /\ total_cost = Unset
    /\ df_sorted = EmptyFrame
    /\ top_80 = EmptyFrame
    /\ right_sizing = EmptyFrame
    /\ pc = EmptyFrame
    /\ inv_threshold = Unset
    /\ low_value = EmptyFrame
    /\ forecast = EmptyFrame
    /\ containers = EmptyFrame

\* C5: when a parse raises (the first parse, or the re-parse or the column
\* assignment of the repair), the run stops at once with the message shown
\* last, and a stopped run has neither the preview nor any view (and goes no
\* further); without a file nothing is parsed or rendered but the waiting
\* message.
C5_ParseFailureHalts ==
    /\ JustLoaded =>
          \E r \in {LoadCsv(uploaded.lines)} :
              IF r.err THEN at = "stopped" /\ error = r.msg
              ELSE at = "coerce" /\ error = ""
    /\ error /= "" => at = "stopped"
    /\ (uploaded.present /\ at = "stopped") =>
          /\ error /= ""
          /\ shown \in {<<"error">>, <<"warning", "error">>}
          /\ NothingComputed
    /\ ~uploaded.present =>
          /\ at \in {"upload", "stopped"}
          /\ shown \in {<<>>, <<"info">>}
          /\ error = ""
          /\ NothingComputed

\* A run stopped by the column assignment of the repair.
C5_Witness ==
    /\ at = "stopped"
    /\ error = "Length mismatch"
    /\ shown = <<"warning", "error">>

TotalInvocations == SeriesSum(Column(preview, InvocationsPerMonth))

\* C6 as stated: with a total CostUSD of zero no cost percentage is a number,
\* and with a total InvocationsPerMonth of zero the low-value threshold is no
\* number.
C6_UndefinedOnZeroTotal ==
    /\ (Ranked /\ total_cost = Num(0)) =>
          \A i \in 1..Len(df_sorted.rows) : ~IsNum(df_sorted.rows[i].c[CostPercent])
    /\ (Has("low_value") /\ TotalInvocations = Num(0)) => ~IsNum(inv_threshold)

\* C6, amended: with a total CostUSD of zero no cost percentage is a number
\* (each is missing or infinite); with a total InvocationsPerMonth of zero the
\* low-value threshold is the number 0, and the view selects only rows with
\* InvocationsPerMonth below 0.
C6_ZeroTotals ==
    /\ (Ranked /\ total_cost = Num(0)) =>
          \A i \in 1..Len(df_sorted.rows) : ~IsNum(df_sorted.rows[i].c[CostPercent])
    /\ (Has("low_value") /\ TotalInvocations = Num(0)) =>
          /\ inv_threshold = Num(0)
          /\ \A i \in 1..Len(low_value.rows) :
                Below(low_value.rows[i].c[InvocationsPerMonth], 0)

\* Both totals zero, with a cost percentage that is infinite and one missing.
C6_Witness ==
    /\ Has("low_value")
    /\ total_cost = Num(0)
    /\ inv_threshold = Num(0)
    /\ \E i \in 1..Len(df_sorted.rows) : IsInf(df_sorted.rows[i].c[CostPercent])
    /\ \E i \in 1..Len(df_sorted.rows) :
          /\ Cost(df_sorted.rows[i]) = Num(0)
          /\ IsNaN(df_sorted.rows[i].c[CostPercent])

HasProvisioned(r) == Above(r.c[ProvisionedConcurrency], 0)

\* C7: the provisioned-concurrency view holds exactly the rows of the table
\* with ProvisionedConcurrency > 0, and each of them is labelled
\* "reduce/remove" if its ColdStartRate is below 10 and "keep" otherwise.
C7_ProvisionedAdvice ==
    /\ Has("pc") =>
          /\ Idx(pc) = Matching(HasProvisioned)
          /\ RowsOfTable(pc)
    /\ Has("recommendations") =>
          /\ pc.cols = Append(ColumnNames, Recommendation)
          /\ \A i \in 1..Len(pc.rows) :
                pc.rows[i].c[Recommendation] =
                    IF Below(pc.rows[i].c[ColdStartRate], 10) THEN ReducePC ELSE KeepPC

\* ColdStartRate 5 gives "reduce/remove"; 10 and a missing one give "keep".
C7_Witness ==
    /\ Has("recommendations")
    /\ \E i \in 1..Len(pc.rows) :
          /\ pc.rows[i].c[ProvisionedConcurrency] = Num(5)
          /\ pc.rows[i].c[ColdStartRate] = Num(5)
          /\ pc.rows[i].c[Recommendation] = ReducePC
    /\ \E i \in 1..Len(pc.rows) :
          /\ pc.rows[i].c[ColdStartRate] = Num(10)
          /\ pc.rows[i].c[Recommendation] = KeepPC
    /\ \E i \in 1..Len(pc.rows) :
          /\ IsNaN(pc.rows[i].c[ColdStartRate])
          /\ pc.rows[i].c[Recommendation] = KeepPC

ShortAndLarge(r) == Below(r.c[AvgDurationMs], 600) /\ Above(r.c[MemoryMB], 1024)

\* C8: the right-sizing view holds exactly the rows with AvgDurationMs < 600
\* and MemoryMB > 1024, each with EstimatedSavings = CostUSD x 0.30 (that is,
\* 10 x EstimatedSavings = 3 x CostUSD).
C8_RightSizing ==
    Has("right_sizing") =>
        /\ right_sizing.cols = Append(ColumnNames, EstimatedSavings)
        /\ Idx(right_sizing) = Matching(ShortAndLarge)
        /\ RowsOfTable(right_sizing)
        /\ \A i \in 1..Len(right_sizing.rows) :
              FMul(Num(10), right_sizing.rows[i].c[EstimatedSavings])
                = FMul(Num(3), Cost(right_sizing.rows[i]))

\* 500 ms, 2048 MB, cost 100: included with savings 30; rows of 600 ms and of
\* 700 ms are left out.
C8_Witness ==
    /\ Has("right_sizing")
    /\ Len(right_sizing.rows) = 1
    /\ right_sizing.rows[1].c[AvgDurationMs] = Num(500)
    /\ right_sizing.rows[1].c[MemoryMB] = Num(2048)
    /\ Cost(right_sizing.rows[1]) = Num(100)
    /\ right_sizing.rows[1].c[EstimatedSavings] = Num(30)
    /\ \E i \in 1..Len(preview.rows) : preview.rows[i].c[AvgDurationMs] = Num(600)
    /\ \E i \in 1..Len(preview.rows) : preview.rows[i].c[AvgDurationMs] = Num(700)

ForecastInputs(r) == <<r.c[InvocationsPerMonth], r.c[AvgDurationMs], r.c[MemoryMB],
                       r.c[DataTransferGB]>>

\* C9: the forecasting view keeps every row of the table, in order, and each
\* row's ForecastedCost is InvocationsPerMonth x AvgDurationMs x MemoryMB x
\* 1.2e-10 + DataTransferGB x 0.09, missing when one of the four is missing.
C9_Forecast ==
    Has("forecast") =>
        /\ forecast.cols = <<FunctionName, CostUSD, ForecastedCost>>
        /\ Idx(forecast) = Idx(preview)
        /\ \A i \in 1..Len(forecast.rows) :
              LET r == preview.rows[i]
                  x == ForecastInputs(r)
                  y == forecast.rows[i].c[ForecastedCost]
              IN  /\ forecast.rows[i].c[FunctionName] = r.c[FunctionName]
                  /\ forecast.rows[i].c[CostUSD] = r.c[CostUSD]
                  /\ IsNaN(y) <=> \E j \in 1..4 : IsNaN(x[j])
                  /\ ~IsNaN(y) =>
                        y = FAdd(FMul(Dec(12, -11), FMul(x[1], FMul(x[2], x[3]))),
                                 FMul(Dec(9, -2), x[4]))

\* 1,000,000 invocations of 100 ms at 128 MB with no transfer: 1.536; a row
\* with transfer; a row with a missing input.
C9_Witness ==
    /\ Has("forecast")
    /\ \E i \in 1..Len(forecast.rows) :
          /\ ForecastInputs(preview.rows[i]) = <<Num(1000000), Num(100), Num(128), Num(0)>>
          /\ forecast.rows[i].c[ForecastedCost] = Dec(1536, -3)
    /\ \E i \in 1..Len(forecast.rows) :
          /\ preview.rows[i].c[DataTransferGB] = Num(10)
          /\ forecast.rows[i].c[ForecastedCost] = Dec(102288, -5)
    /\ \E i \in 1..Len(forecast.rows) : IsNaN(forecast.rows[i].c[ForecastedCost])

Repaired == Has("warning") /\ error = ""

HeaderFirst == uploaded.present /\ uploaded.lines /= <<>>
               /\ Unquoted(uploaded.lines[1]) = HeaderLine

\* The cells of line i of the file as the repair splits them.
LineCells(i) == Expanded(Split(Unquoted(uploaded.lines[i])), Len(ColumnNames))

InView(f, idx) == \E i \in 1..Len(f.rows) : f.rows[i].idx = idx

\* C10: the repaired table has one record per line of the file, the first
\* included; a header line in first place becomes the record with index 0,
\* whose eight numeric fields are missing after coercion, which no filter
\* view selects and which the preview and the forecasting view show.
C10_HeaderBecomesRecord ==
    /\ (Repaired /\ at = "coerce") =>
          /\ Len(df.rows) = Len(uploaded.lines)
          /\ \A i \in 1..Len(df.rows) :
                /\ df.rows[i].idx = i - 1
                /\ \A j \in 1..Len(ColumnNames) :
                      df.rows[i].c[ColumnNames[j]] = LineCells(i)[j]
    /\ (Repaired /\ HeaderFirst /\ Has("preview")) =>
          /\ Len(preview.rows) = Len(uploaded.lines)
          /\ preview.rows[1].idx = 0
          /\ preview.rows[1].c[FunctionName] = Str(FunctionName)
          /\ \A j \in 1..Len(NumericColumns) : IsNaN(preview.rows[1].c[NumericColumns[j]])
          /\ ~InView(top_80, 0)
          /\ ~InView(right_sizing, 0)
          /\ ~InView(pc, 0)
          /\ ~InView(low_value, 0)
          /\ ~InView(containers, 0)
          /\ Has("forecast") =>
                /\ InView(forecast, 0)
                /\ forecast.rows[1].c[FunctionName] = Str(FunctionName)

\* A finished run on a repaired file that begins with the header line.
C10_Witness ==
    /\ Repaired
    /\ HeaderFirst
    /\ at = "done"
    /\ Len(preview.rows) = 3
    /\ InView(forecast, 0)
    /\ IsNaN(forecast.rows[1].c[ForecastedCost])
    /\ Len(top_80.rows) > 0

====
